---- MODULE Spec2Model ----
(***************************************************************************)
(* Model of McastClient (src/src/client.ts, second definition of the      *)
(* class, lines 697-1523): the publisher and subscriber connection        *)
(* lifecycle, the reconnect scheduler, disconnect() and the topic         *)
(* registry.                                                              *)
(*                                                                        *)
(* JavaScript runs every handler to completion and then drains the        *)
(* microtask queue, so one action of the model is one macrotask (a user   *)
(* call, a transport event or a timer) followed by the promise reactions  *)
(* it queued.  Handlers are operators from a client record to a client    *)
(* record, which lets a state-change listener call back into the client   *)
(* from inside a notification exactly as the code allows.                 *)
(***************************************************************************)
EXTENDS Integers, Sequences, FiniteSets, TLC

\* ---------------------------------------------------------------- bounds
MaxSockets == 3             \* promise/socket pairs created in a run
MaxWaiters == 2             \* callers awaiting one connect promise
MaxTimers == 2              \* reconnect timers pending at once, per role
MaxDisconnects == 2         \* disconnect() calls in a run
MaxListeners == 1           \* state-change listeners registered
MaxRegistrations == 2       \* callbacks held by the topic registry
maxReconnectAttempts == 2   \* options.maxReconnectAttempts

\* ------------------------------------------------------------- constants
Roles == {"publisher", "subscriber"}

DISCONNECTED == "disconnected"
CONNECTING == "connecting"
CONNECTED == "connected"
RECONNECTING == "reconnecting"
DISCONNECTING == "disconnecting"
ERROR == "error"

ConnectionState ==
    {DISCONNECTED, CONNECTING, CONNECTED, RECONNECTING, DISCONNECTING, ERROR}

TOPIC_ALL == "_ALL_"

\* WebSocket.readyState, by name (isSocketConnected compares it with OPEN)
ReadyStates == {"CONNECTING", "OPEN", "CLOSING", "CLOSED"}

\* Behaviours of the state-change listeners a user registers: "observer"
\* only looks at the notification, "reenter" calls publish/subscribe for the
\* notified role from inside a CONNECTING or DISCONNECTED notification
\* (once: it keeps a flag of its own), "thrower" throws, "detacher" calls
\* the detachment function that onStateChange returned for "observer".
ListenerKinds == {"observer", "reenter", "thrower", "detacher"}

VARIABLES
    connState,             \* pubState / subState
    socket,                \* pubSocket / subSocket: index into attempts[r],
                           \* 0 = null, Closed = a socket that has closed
    connectPromise,        \* pubConnectPromise / subConnectPromise: index
                           \* into attempts[r], 0 = null
    reconnectAttempts,     \* pubReconnectAttempts / subReconnectAttempts
    isDisconnecting,       \* the shutdown flag
    autoReconnect,         \* options.autoReconnect
    listeners,             \* topic registry: topic -> sequence of callbacks
    stateChangeListeners,  \* sequence of listener kinds
    reentered,             \* the "reenter" listener has made its call
    attempts,              \* per role, the promise/socket pairs connect created
    driven,                \* the roles the application uses in this run
    ctorThrows,            \* the roles whose transport construction throws
    timers,                \* pending reconnect timers per role
    shutdown,              \* position of each disconnect() call
    wire                   \* envelopes the endpoint has relayed to the
                           \* subscriber socket and that are not yet delivered

vars == <<connState, socket, connectPromise, reconnectAttempts, isDisconnecting,
          autoReconnect, listeners, stateChangeListeners, reentered, attempts,
          driven, ctorThrows, timers, shutdown, wire>>

\* The client as one record, with what a macrotask leaves behind besides
\* the fields: micro is its microtask queue, constructed counts its
\* `new WebSocketImpl` calls, notes lists the transitions it made, heard
\* the notifications it delivered (listener, state, role), invoked the
\* message callbacks it called, sent the envelopes it handed to a socket
\* and settled the calls it settled.  throws is the set of roles for which
\* building the URL or `new WebSocketImpl(url)` throws: the URL is built
\* from the same fields on every attempt (lines 857-875, 981-1004), so a
\* role throws always or never; the base URL, channel and headers are
\* shared by the roles, rootTopics goes into the subscriber URL only.
Cur ==
    [connState |-> connState, socket |-> socket,
     connectPromise |-> connectPromise,
     reconnectAttempts |-> reconnectAttempts,
     isDisconnecting |-> isDisconnecting, autoReconnect |-> autoReconnect,
     listeners |-> listeners, stateChangeListeners |-> stateChangeListeners,
     reentered |-> reentered, attempts |-> attempts, timers |-> timers,
     shutdown |-> shutdown, constructed |-> 0, notes |-> <<>>,
     heard |-> <<>>, invoked |-> <<>>, sent |-> <<>>, raised |-> <<>>,
     settled |-> <<>>, micro |-> <<>>, throws |-> ctorThrows]

\* the fields of the client after a macrotask that ended in s
CommitClient(s) ==
    /\ connState' = s.connState
    /\ socket' = s.socket
    /\ connectPromise' = s.connectPromise
    /\ reconnectAttempts' = s.reconnectAttempts
    /\ isDisconnecting' = s.isDisconnecting
    /\ autoReconnect' = s.autoReconnect
    /\ listeners' = s.listeners
    /\ stateChangeListeners' = s.stateChangeListeners
    /\ reentered' = s.reentered
    /\ attempts' = s.attempts
    /\ driven' = driven
    /\ ctorThrows' = ctorThrows
    /\ timers' = s.timers
    /\ shutdown' = s.shutdown

\* a macrotask during which the endpoint relays nothing
Commit(s) == CommitClient(s) /\ wire' = wire

\* --------------------------------------------------- promises and sockets
\* One entry per promise created at client.ts:854/978, with the WebSocket
\* its executor built.  When the constructor threw there is no socket: the
\* entry is a rejected promise and counts as closed.  waiters are the
\* reactions registered on the promise, closeListeners the disconnect()
\* calls whose one-shot "close" listener is attached to the socket.
NewAttempt(ok) ==
    [promise |-> IF ok THEN "pending" ELSE "rejected",
     error |-> IF ok THEN "none" ELSE "constructor threw",
     readyState |-> IF ok THEN "CONNECTING" ELSE "CLOSED",
     errorFired |-> ~ok,
     waiters |-> <<>>,
     closeListeners |-> {}]

\* socket[r] of a socket that has closed and is no longer kept in attempts
Closed == -1

\* a readyState test that never finds the socket open
isSocketConnectedNever(s, r) == FALSE

isSocketConnected(s, r) ==
    /\ s.socket[r] \notin {0, Closed}
    /\ s.attempts[r][s.socket[r]].readyState = "OPEN"

\* A reaction whose promise has settled is queued as a microtask.
Enqueue(s, w, result, err, k) ==
    [s EXCEPT !.micro = Append(@, [w |-> w, result |-> result,
                                   error |-> err, attempt |-> k])]

RECURSIVE EnqueueAll(_, _, _, _, _)
EnqueueAll(s, ws, result, err, k) ==
    IF ws = <<>> THEN s
    ELSE EnqueueAll(Enqueue(s, Head(ws), result, err, k), Tail(ws), result, err, k)

\* `await p` / `p.catch(f)` on the promise of attempt k of role r.
Await(s, r, k, w) ==
    IF s.attempts[r][k].promise = "pending"
    THEN [s EXCEPT !.attempts[r][k].waiters = Append(@, w)]
    ELSE Enqueue(s, w, s.attempts[r][k].promise, s.attempts[r][k].error, k)

\* resolve() / reject(err) of the promise of attempt k: a settled promise
\* ignores it.
Settle(s, r, k, result, err) ==
    IF s.attempts[r][k].promise # "pending" THEN s
    ELSE EnqueueAll([s EXCEPT !.attempts[r][k].promise = result,
                              !.attempts[r][k].error = err,
                              !.attempts[r][k].waiters = <<>>],
                    s.attempts[r][k].waiters, result, err, k)

\* ------------------------------------------------------------ envelopes
\* JavaScript values a payload object holds, by name, and the JSON tokens
\* JSON.stringify writes for them.  A payload is a function from its keys
\* to values.
Values == {"number 1", "string x", "null", "NaN", "undefined"}

\* JSON.stringify of one property value: NaN is written as null
tokenOf(v) ==
    CASE v = "number 1" -> "1"
      [] v = "string x" -> "\"x\""
      [] v = "null" -> "null"
      [] v = "NaN" -> "null"

\* JSON.parse of one token
valueOf(tok) ==
    CASE tok = "1" -> "number 1"
      [] tok = "\"x\"" -> "string x"
      [] tok = "null" -> "null"

\* JSON.stringify(payload), line 1245: a JSON object text, given by its
\* members; a property whose value is undefined is left out
stringify(payload) ==
    [k \in {x \in DOMAIN payload : payload[x] # "undefined"} |->
        tokenOf(payload[k])]

\* JSON.parse of an object text
parse(text) == [k \in DOMAIN text |-> valueOf(text[k])]

\* the envelope that goes into the frame with the payload object as it is,
\* not serialized on its own
envelopeOfObject(topic, payload) ==
    [topic |-> topic, payload |-> [object |-> payload]]

\* publish, lines 1243-1249: the frame text, given by the two members of
\* the envelope; the payload member is a string that holds a JSON text
envelopeOf(topic, payload) ==
    [topic |-> topic, payload |-> [string |-> stringify(payload)]]

\* The reactions the code attaches to a promise.
NoPayload == <<>>
PublishCallOf(topic, payload) ==
    [op |-> "publish", role |-> "publisher", call |-> 0,
     callback |-> "none", topics |-> <<topic>>, payload |-> payload]
PublishCall == PublishCallOf("t1", NoPayload)
SubscribeCall(cb, topicArray) ==
    [op |-> "subscribe", role |-> "subscriber", call |-> 0,
     callback |-> cb, topics |-> topicArray, payload |-> NoPayload]
ReconnectCatch(r) == [op |-> "reconnect", role |-> r, call |-> 0,
                      callback |-> "none", topics |-> <<>>,
                      payload |-> NoPayload]
DisconnectAwait(d, r) == [op |-> "disconnect", role |-> r, call |-> d,
                          callback |-> "none", topics |-> <<>>,
                          payload |-> NoPayload]

\* ------------------------------------------------- state change notifier
RECURSIVE updateState(_, _, _)
RECURSIVE connect(_, _, _)

\* the function onStateChange returns, lines 1459-1463: the filter puts a
\* new array in the field, an array being iterated is not touched
detach(s, kind) ==
    LET kept(l) == l # kind
    IN [s EXCEPT !.stateChangeListeners = SelectSeq(@, kept)]

\* What one registered listener does with a notification.  A "thrower"
\* throws: the try/catch of lines 1222-1227 swallows the exception.
Listener(s, kind, state, r) ==
    IF kind = "detacher" THEN detach(s, "observer")
    ELSE IF /\ kind = "reenter"
       /\ ~s.reentered
       /\ state \in {CONNECTING, DISCONNECTED}
    THEN connect([s EXCEPT !.reentered = TRUE], r,
                 IF r = "publisher" THEN PublishCall
                 ELSE SubscribeCall("cb1", <<"t1">>))
    ELSE s

RECURSIVE notifyFrom(_, _, _, _, _)
notifyFrom(s, ls, i, state, r) ==
    IF i > Len(ls) THEN s
    ELSE notifyFrom(Listener([s EXCEPT !.heard = Append(@, <<i, state, r>>)],
                             ls[i], state, r),
                    ls, i + 1, state, r)

\* a pass that reads the field again at every index instead of iterating
\* the array it started with
RECURSIVE notifyLive(_, _, _, _)
notifyLive(s, i, state, r) ==
    IF i > Len(s.stateChangeListeners) THEN s
    ELSE notifyLive(Listener([s EXCEPT !.heard = Append(@, <<i, state, r>>)],
                             s.stateChangeListeners[i], state, r),
                    i + 1, state, r)

notifyLiveListeners(s, state, r) == notifyLive(s, 1, state, r)

notifyStateChangeListeners(s, state, r) ==
    notifyFrom(s, s.stateChangeListeners, 1, state, r)

updateState(s, state, r) ==
    notifyStateChangeListeners(
        [s EXCEPT !.connState[r] = state,
                  !.notes = Append(@, <<state, r>>)],
        state, r)

\* ------------------------------------------------- connection controller
\* connectPublisher / connectSubscriber, called with the reaction w its
\* caller attaches to the returned promise.
connect(s, r, w) ==
    IF s.connectPromise[r] # 0 THEN Await(s, r, s.connectPromise[r], w)
    ELSE IF isSocketConnected(s, r)
    THEN Enqueue(s, w, "resolved", "none", 0)
    ELSE IF s.isDisconnecting
    THEN Enqueue(s, w, "rejected", "Client is disconnecting", 0)
    ELSE LET s1 == updateState(s, CONNECTING, r)
             k == Len(s1.attempts[r]) + 1
             ok == r \notin s1.throws
             \* the executor runs first (its catch clears the field), then
             \* the assignment stores the new promise in the field
             s2 == [s1 EXCEPT !.attempts[r] = Append(@, NewAttempt(ok)),
                              !.constructed = @ + 1,
                              !.socket[r] = IF ok THEN k ELSE @,
                              !.connectPromise[r] = k]
         IN Await(s2, r, k, w)

\* attemptReconnect without the shutdown-flag guard of line 1131
attemptReconnectWhileDisconnecting(s, r) ==
    IF s.reconnectAttempts[r] >= maxReconnectAttempts THEN s
    ELSE LET s1 == updateState(s, RECONNECTING, r)
         IN [s1 EXCEPT !.reconnectAttempts[r] = @ + 1,
                       !.timers[r] = @ + 1]

\* attemptReconnect without the ceiling guard of line 1130
attemptReconnectWithoutCeiling(s, r) ==
    IF s.isDisconnecting THEN s
    ELSE LET s1 == updateState(s, RECONNECTING, r)
         IN [s1 EXCEPT !.reconnectAttempts[r] = @ + 1,
                       !.timers[r] = @ + 1]

\* attemptReconnectPublisher / attemptReconnectSubscriber
attemptReconnect(s, r) ==
    IF s.reconnectAttempts[r] >= maxReconnectAttempts \/ s.isDisconnecting
    THEN s
    ELSE LET s1 == updateState(s, RECONNECTING, r)
         IN [s1 EXCEPT !.reconnectAttempts[r] = @ + 1,
                       !.timers[r] = @ + 1]

\* ------------------------------------------------------------- reactions
\* subscribe, lines 1310-1316: the registration loop
\* The registry is a plain object (lines 721-723): for a property name
\* that every object inherits, this.listeners[name] is a function of
\* Object.prototype and not undefined.
Inherited == {"constructor"}

\* a registry lookup this.listeners[topic] that finds an inherited property
Shadowed(reg, topic) == topic \in Inherited /\ topic \notin DOMAIN reg

\* The loop stops where `.push` is called on an inherited property: that
\* call throws a TypeError.
RECURSIVE register(_, _, _)
register(reg, topicArray, cb) ==
    IF topicArray = <<>> \/ Shadowed(reg, Head(topicArray)) THEN reg
    ELSE LET topic == Head(topicArray)
             old == IF topic \in DOMAIN reg THEN reg[topic] ELSE <<>>
         IN register([x \in DOMAIN reg \cup {topic} |->
                         IF x = topic THEN Append(old, cb) ELSE reg[x]],
                     Tail(topicArray), cb)

Record(s, m, result, err) ==
    [s EXCEPT !.settled = Append(@, [op |-> m.w.op, role |-> m.w.role,
                                      call |-> m.w.call, result |-> result,
                                      error |-> err, attempt |-> m.attempt])]

\* a disconnect() that returns after the close sequence of the publisher
NextRoleNone(r) == "done"

NextRole(r) == IF r = "publisher" THEN "subscriber" ELSE "done"

\* One `close` listener of disconnect() or its timeout resolves the local
\* promise pubSocketClosed / subSocketClosed of call d.
ResolveClosed(s, d, r) ==
    IF s.shutdown[d] # r THEN s
    ELSE Enqueue([s EXCEPT !.shutdown[d] = "resuming"],
                 DisconnectAwait(d, r), "resolved", "none", 0)

\* disconnect(), lines 1355-1441, from the section of role r on.  The
\* catch around close() (lines 1385-1389) is not modelled: close(1000, ...)
\* does not throw on a WebSocket.
RECURSIVE closeFrom(_, _, _)
closeFrom(s, d, r) ==
    IF r = "done"
    THEN [s EXCEPT !.connectPromise = [x \in Roles |-> 0],
                   !.shutdown[d] = "done",
                   !.settled = Append(@, [op |-> "disconnect", role |-> "done",
                                          call |-> d, result |-> "resolved",
                                          error |-> "none", attempt |-> 0])]
    ELSE IF s.socket[r] = 0 THEN closeFrom(s, d, NextRole(r))
    ELSE LET s1 == updateState(s, DISCONNECTING, r)
             k == s1.socket[r]
             s2 == [s1 EXCEPT !.shutdown[d] = r]
         IN IF k = 0 THEN ResolveClosed(s2, d, r)
            ELSE IF k = Closed \/ s2.attempts[r][k].readyState = "CLOSED"
            THEN s2
            ELSE [s2 EXCEPT
                    !.attempts[r][k].closeListeners = @ \cup {d},
                    !.attempts[r][k].readyState =
                        IF @ \in {"CONNECTING", "OPEN"} THEN "CLOSING" ELSE @]

\* the readyState of the socket this.pubSocket refers to
sendState(s) ==
    IF s.socket["publisher"] \in 1..Len(s.attempts["publisher"])
    THEN s.attempts["publisher"][s.socket["publisher"]].readyState
    ELSE "CLOSED"

\* A reaction runs as a microtask.
React(s, m) ==
    CASE m.w.op = "publish" ->
            \* publish, lines 1242-1249: pubSocket?.send(envelope).  send()
            \* of a WebSocket that is CONNECTING throws InvalidStateError,
            \* which rejects the call; on a CLOSING or CLOSED one it
            \* returns and the data is discarded.
            IF m.result = "resolved" /\ s.socket["publisher"] # 0
            THEN IF sendState(s) = "CONNECTING"
                 THEN Record(s, m, "rejected", "InvalidStateError")
                 ELSE Record([s EXCEPT !.sent = Append(@,
                            [socket |-> s.socket["publisher"],
                             readyState |-> sendState(s),
                             topic |-> m.w.topics[1],
                             payload |-> m.w.payload,
                             text |-> envelopeOf(m.w.topics[1], m.w.payload)])],
                        m, m.result, m.error)
            ELSE Record(s, m, m.result, m.error)
      [] m.w.op = "subscribe" ->
            IF m.result = "resolved"
            THEN LET threw == \E i \in 1..Len(m.w.topics) :
                                  Shadowed(s.listeners, m.w.topics[i])
                 IN Record([s EXCEPT !.listeners =
                               register(@, m.w.topics, m.w.callback)],
                           m, IF threw THEN "rejected" ELSE m.result,
                           IF threw THEN "TypeError" ELSE m.error)
            ELSE Record(s, m, m.result, m.error)
      [] m.w.op = "reconnect" ->
            IF m.result = "rejected" THEN attemptReconnect(s, m.w.role) ELSE s
      [] m.w.op = "disconnect" ->
            closeFrom([s EXCEPT !.socket[m.w.role] = 0], m.w.call,
                      NextRole(m.w.role))

RECURSIVE Drain(_)
Drain(s) ==
    IF s.micro = <<>> THEN s
    ELSE Drain(React([s EXCEPT !.micro = Tail(@)], Head(s.micro)))

\* ------------------------------------------------------ transport events
\* an open handler that resets the retry counters of both roles
onopenResettingBoth(s, r, k) ==
    LET s1 == updateState([s EXCEPT !.attempts[r][k].readyState = "OPEN"],
                          CONNECTED, r)
        s2 == [s1 EXCEPT !.reconnectAttempts = [x \in Roles |-> 0]]
        s3 == Settle(s2, r, k, "resolved", "none")
    IN [s3 EXCEPT !.connectPromise[r] = 0]

\* an open handler that leaves the retry counter as it is
onopenKeepingCounter(s, r, k) ==
    LET s1 == updateState([s EXCEPT !.attempts[r][k].readyState = "OPEN"],
                          CONNECTED, r)
        s3 == Settle(s1, r, k, "resolved", "none")
    IN [s3 EXCEPT !.connectPromise[r] = 0]

onopen(s, r, k) ==
    LET s1 == updateState([s EXCEPT !.attempts[r][k].readyState = "OPEN"],
                          CONNECTED, r)
        s2 == [s1 EXCEPT !.reconnectAttempts[r] = 0]
        s3 == Settle(s2, r, k, "resolved", "none")
    IN [s3 EXCEPT !.connectPromise[r] = 0]

onerror(s, r, k) ==
    LET s1 == updateState([s EXCEPT !.attempts[r][k].readyState = "CLOSING",
                                    !.attempts[r][k].errorFired = TRUE],
                          ERROR, r)
        s2 == IF s1.connState[r] # CONNECTED
              THEN Settle(s1, r, k, "rejected", "Unknown error")
              ELSE s1
    IN [s2 EXCEPT !.connectPromise[r] = 0]

RECURSIVE closeObserved(_, _, _)
closeObserved(s, ds, r) ==
    IF ds = {} THEN s
    ELSE LET d == CHOOSE x \in ds : \A y \in ds : x <= y
         IN closeObserved(ResolveClosed(s, d, r), ds \ {d}, r)

onclose(s, r, k) ==
    LET wasConnected == s.connState[r] = CONNECTED
        s1 == updateState([s EXCEPT !.attempts[r][k].readyState = "CLOSED",
                                    !.attempts[r][k].errorFired = TRUE,
                                    !.attempts[r][k].closeListeners = {}],
                          DISCONNECTED, r)
        s2 == [s1 EXCEPT !.connectPromise[r] = 0]
        s3 == IF wasConnected /\ s2.autoReconnect /\ ~s2.isDisconnecting
              THEN attemptReconnect(s2, r)
              ELSE s2
        s4 == IF ~wasConnected
              THEN Settle(s3, r, k, "rejected", "Denied")
              ELSE s3
    IN closeObserved(s4, s.attempts[r][k].closeListeners, r)

\* reconnect timer callback that does not call connectPublisher
reconnectTimerIdle(s, r) ==
    [s EXCEPT !.timers[r] = @ - 1]

\* the callback of the reconnect timer, lines 1147-1156
reconnectTimer(s, r) ==
    LET s1 == [s EXCEPT !.timers[r] = @ - 1]
    IN IF ~s1.isDisconnecting THEN connect(s1, r, ReconnectCatch(r)) ELSE s1

\* disconnect() entering DISCONNECTING for the publisher whether or not it
\* holds a socket
disconnectAlwaysTransitions(s, d) ==
    closeFrom(updateState([s EXCEPT !.isDisconnecting = TRUE],
                          DISCONNECTING, "publisher"),
              d, "publisher")

\* shutdown timer that drops the socket reference without resolving
shutdownTimerNotResolving(s, d) ==
    [s EXCEPT !.socket[s.shutdown[d]] = 0]

\* the callback of the shutdown timer, lines 1369-1377
shutdownTimer(s, d) ==
    LET r == s.shutdown[d]
    IN ResolveClosed([s EXCEPT !.socket[r] = 0], d, r)

disconnect(s, d) ==
    closeFrom([s EXCEPT !.isDisconnecting = TRUE], d, "publisher")

\* unsubscribe, lines 1325-1344 (cb = "none": no callback given)
RECURSIVE without(_, _)
without(cbs, cb) ==
    IF cbs = <<>> THEN <<>>
    ELSE IF Head(cbs) = cb THEN without(Tail(cbs), cb)
    ELSE <<Head(cbs)>> \o without(Tail(cbs), cb)

\* unsubscribe that deletes the whole entry whether or not a callback is
\* given
unsubscribeWholeTopic(s, topic, cb) ==
    IF Shadowed(s.listeners, topic)
    THEN IF cb # "none" THEN [s EXCEPT !.raised = Append(@, "TypeError")]
         ELSE s
    ELSE IF topic \notin DOMAIN s.listeners THEN s
    ELSE [s EXCEPT !.listeners =
             [x \in DOMAIN s.listeners \ {topic} |-> s.listeners[x]]]

\* unsubscribe without the clean-up of lines 1337-1339
unsubscribeKeepingEmpty(s, topic, cb) ==
    IF Shadowed(s.listeners, topic)
    THEN IF cb # "none" THEN [s EXCEPT !.raised = Append(@, "TypeError")]
         ELSE s
    ELSE IF topic \notin DOMAIN s.listeners THEN s
    ELSE IF cb # "none"
    THEN [s EXCEPT !.listeners[topic] = without(@, cb)]
    ELSE [s EXCEPT !.listeners =
             [x \in DOMAIN s.listeners \ {topic} |-> s.listeners[x]]]

unsubscribe(s, topic, cb) ==
    IF Shadowed(s.listeners, topic)
    THEN \* line 1332: `.filter` of a function is not callable; line 1342:
         \* delete of a property that is not the object's own does nothing
         IF cb # "none" THEN [s EXCEPT !.raised = Append(@, "TypeError")]
         ELSE s
    ELSE IF topic \notin DOMAIN s.listeners THEN s
    ELSE IF cb # "none" /\ without(s.listeners[topic], cb) # <<>>
    THEN [s EXCEPT !.listeners[topic] = without(@, cb)]
    ELSE [s EXCEPT !.listeners =
             [x \in DOMAIN s.listeners \ {topic} |-> s.listeners[x]]]

\* --------------------------------------------------------------- dispatch
\* The message callbacks a user passes to subscribe: "cb1" and "cb2"
\* return, "thrower" throws, "remover" calls unsubscribe(topic, "cb1") for
\* the topic it is invoked with.
Callback(s, cb, topic) ==
    IF cb = "remover"
    THEN [unsubscribe(s, topic, "cb1") EXCEPT !.raised = s.raised]
    ELSE s

\* callback cb is in the registry entry of topic
IsRegistered(reg, topic, cb) ==
    /\ topic \in DOMAIN reg
    /\ \E i \in 1..Len(reg[topic]) : reg[topic][i] = cb

\* the log entry of one invocation: the callback, the entry it was taken
\* from and whether it is still in that entry when it is called
Invocation(s, l) ==
    [callback |-> l.callback, via |-> l.via,
     registered |-> IsRegistered(s.listeners, l.via, l.callback)]

\* An inbound frame: outer and inner say whether JSON.parse accepts the
\* envelope and its payload string.
Frame(outer, topic, inner) == [outer |-> outer, topic |-> topic, inner |-> inner]

\* onmessage, lines 1080-1092, on a frame the endpoint relays: the outer
\* parse gives the envelope; JSON.parse of its payload member expects a
\* string that holds a JSON text and throws on anything else
frameOf(text) == Frame(TRUE, text.topic, "string" \in DOMAIN text.payload)

\* the arguments of callback(message.topic, parsedPayload), line 1102
delivered(text) == <<text.topic, parse(text.payload.string)>>

listenersOf(reg, topic) == IF topic \in DOMAIN reg THEN reg[topic] ELSE <<>>

\* the callbacks of one registry entry, each with the entry it comes from
Tagged(cbs, via) == [i \in 1..Len(cbs) |-> [callback |-> cbs[i], via |-> via]]

\* listeners.forEach, lines 1100-1108; the try/catch around the call keeps
\* an exception of one callback from the others.
RECURSIVE invokeFrom(_, _, _, _)
invokeFrom(s, ls, i, topic) ==
    IF i > Len(ls) THEN s
    ELSE invokeFrom(Callback([s EXCEPT !.invoked = Append(@, Invocation(s, ls[i]))],
                             ls[i].callback, topic),
                    ls, i + 1, topic)

\* forEach without the inner try/catch: the first exception ends the loop
\* (the outer catch of line 1110 takes it)
forEachUnprotected(s, ls, topic) ==
    LET throwing == {i \in 1..Len(ls) : ls[i].callback = "thrower"}
        last == IF throwing = {} THEN Len(ls)
                ELSE CHOOSE i \in throwing : \A j \in throwing : i <= j
    IN invokeFrom(s, SubSeq(ls, 1, last), 1, topic)

forEach(s, ls, topic) == invokeFrom(s, ls, 1, topic)

\* onmessage that calls the callbacks although the payload did not parse
onmessageIgnoringPayload(s, frame) ==
    IF ~frame.outer \/ Shadowed(s.listeners, frame.topic) THEN s
    ELSE LET ls == Tagged(listenersOf(s.listeners, frame.topic), frame.topic)
                   \o Tagged(listenersOf(s.listeners, TOPIC_ALL), TOPIC_ALL)
         IN IF ls = <<>> THEN s
            ELSE forEach(s, ls, frame.topic)

\* onmessage that takes the wildcard entry before the entry of the topic
onmessageWildcardFirst(s, frame) ==
    IF ~frame.outer \/ Shadowed(s.listeners, frame.topic) THEN s
    ELSE LET ls == Tagged(listenersOf(s.listeners, TOPIC_ALL), TOPIC_ALL)
                   \o Tagged(listenersOf(s.listeners, frame.topic), frame.topic)
         IN IF ls = <<>> \/ ~frame.inner THEN s
            ELSE forEach(s, ls, frame.topic)

\* subSocket.onmessage, lines 1078-1115.  Spreading an inherited property
\* (line 1085) throws a TypeError that the outer catch takes.
onmessage(s, frame) ==
    IF ~frame.outer \/ Shadowed(s.listeners, frame.topic) THEN s
    ELSE LET ls == Tagged(listenersOf(s.listeners, frame.topic), frame.topic)
                   \o Tagged(listenersOf(s.listeners, TOPIC_ALL), TOPIC_ALL)
         IN IF ls = <<>> \/ ~frame.inner THEN s
            ELSE forEach(s, ls, frame.topic)

\* topic normalisation without the collapse of lines 1303-1305
topicArrayKeepingAll(topics) ==
    IF topics = "omitted" THEN <<TOPIC_ALL>> ELSE topics

\* subscribe, lines 1300-1305: the topics argument as an array
topicArrayOf(topics) ==
    LET arr == IF topics = "omitted" THEN <<TOPIC_ALL>> ELSE topics
    IN IF \E i \in 1..Len(arr) : arr[i] = TOPIC_ALL THEN <<TOPIC_ALL>> ELSE arr

publishWith(s, topic, payload) ==
    connect(s, "publisher", PublishCallOf(topic, payload))

\* publish("t1", {})
publish(s) == connect(s, "publisher", PublishCall)

subscribe(s, cb, topics) ==
    connect(s, "subscriber", SubscribeCall(cb, topicArrayOf(topics)))

\* onStateChange, line 1456
onStateChange(s, kind) ==
    [s EXCEPT !.stateChangeListeners = Append(@, kind)]

\* ------------------------------------------------- unreachable objects
\* A closed socket fires no further event.  Once no reaction waits on its
\* promise and the client's promise field no longer holds it, nothing can
\* observe the entry again and it is kept as Gone; a pubSocket/subSocket
\* field that holds a closed socket is written Closed.
Gone ==
    [promise |-> "rejected", error |-> "none", readyState |-> "CLOSED",
     errorFired |-> TRUE, waiters |-> <<>>, closeListeners |-> {}]

Dead(s, r, k) ==
    /\ s.attempts[r][k].readyState = "CLOSED"
    /\ s.attempts[r][k].waiters = <<>>
    /\ s.connectPromise[r] # k

Collect(s) ==
    [s EXCEPT
       !.attempts = [r \in Roles |->
           [k \in 1..Len(s.attempts[r]) |->
               IF Dead(s, r, k) THEN Gone ELSE s.attempts[r][k]]],
       !.socket = [r \in Roles |->
           IF s.socket[r] \in {0, Closed} THEN s.socket[r]
           ELSE IF s.attempts[r][s.socket[r]].readyState = "CLOSED" THEN Closed
           ELSE s.socket[r]]]

\* ----------------------------------------------------------------- Init
\* A run explores a client used to publish only, to subscribe only, or for
\* both; with both roles in use the environment is kept plain (Plain below).
Scenarios == {{"publisher"}, {"subscriber"}, Roles}

Init ==
    /\ connState = [r \in Roles |-> DISCONNECTED]
    /\ socket = [r \in Roles |-> 0]
    /\ connectPromise = [r \in Roles |-> 0]
    /\ reconnectAttempts = [r \in Roles |-> 0]
    /\ isDisconnecting = FALSE
    /\ autoReconnect \in BOOLEAN
    /\ listeners = <<>>
    /\ stateChangeListeners = <<>>
    /\ reentered = FALSE
    /\ attempts = [r \in Roles |-> <<>>]
    /\ driven \in Scenarios
    /\ ctorThrows \in {{}, {"subscriber"} \cap driven, Roles}
    /\ timers = [r \in Roles |-> 0]
    /\ shutdown = [d \in 1..MaxDisconnects |-> "idle"]
    /\ wire = <<>>

\* ---------------------------------------------------------------- inputs
Callbacks == {"cb1"}
TopicInputs == {<<"t1">>}
FrameInputs == {Frame(TRUE, "t1", TRUE)}

RECURSIVE SumLen(_, _)
SumLen(f, S) ==
    IF S = {} THEN 0
    ELSE LET x == CHOOSE y \in S : TRUE
         IN Len(f[x]) + SumLen(f, S \ {x})

Registrations(s) == SumLen(s.listeners, DOMAIN s.listeners)

RECURSIVE CountOp(_, _)
CountOp(ws, op) ==
    IF ws = <<>> THEN 0
    ELSE (IF Head(ws).op = op THEN 1 ELSE 0) + CountOp(Tail(ws), op)

RECURSIVE PendingSubscribes(_, _)
PendingSubscribes(s, k) ==
    IF k = 0 THEN 0
    ELSE CountOp(s.attempts["subscriber"][k].waiters, "subscribe")
         + PendingSubscribes(s, k - 1)

\* The bounds of the model, as a guard on the result of a step.
Fits(s) ==
    /\ Len(s.attempts["publisher"]) + Len(s.attempts["subscriber"]) <= MaxSockets
    /\ \A r \in Roles :
         /\ s.timers[r] <= MaxTimers
         /\ \A k \in 1..Len(s.attempts[r]) :
              Len(s.attempts[r][k].waiters) <= MaxWaiters
    /\ Registrations(s) <= MaxRegistrations

\* One macrotask: the handler, then the microtasks it queued.
Run(s) == Collect(Drain(s))

Step(s) == Fits(s) /\ Commit(s)

\* --------------------------------------------------------------- actions
\* With both roles in use no state-change listener is registered.
Plain == driven = Roles

OnStateChange ==
    \E kind \in {"reenter"} :
        /\ ~Plain
        /\ Len(stateChangeListeners) < MaxListeners
        /\ Step(Run(onStateChange(Cur, kind)))

Publish ==
    /\ "publisher" \in driven
    /\ Step(Run(publish(Cur)))

Subscribe ==
    \E cb \in Callbacks, topics \in TopicInputs :
        /\ "subscriber" \in driven
        /\ Registrations(Cur) + PendingSubscribes(Cur, Len(attempts["subscriber"]))
               < MaxRegistrations
        /\ Step(Run(subscribe(Cur, cb, topics)))

Unsubscribe ==
    \E topic \in DOMAIN listeners, cb \in Callbacks \cup {"none"} :
        Step(Run(unsubscribe(Cur, topic, cb)))

SocketOpen ==
    \E r \in Roles : \E k \in 1..Len(attempts[r]) :
        /\ attempts[r][k].readyState = "CONNECTING"
        /\ Step(Run(onopen(Cur, r, k)))

SocketError ==
    \E r \in Roles : \E k \in 1..Len(attempts[r]) :
        /\ attempts[r][k].readyState # "CLOSED"
        /\ ~attempts[r][k].errorFired
        /\ Step(Run(onerror(Cur, r, k)))

SocketClose ==
    \E r \in Roles : \E k \in 1..Len(attempts[r]) :
        /\ attempts[r][k].readyState # "CLOSED"
        /\ Step(Run(onclose(Cur, r, k)))

ReconnectTimer ==
    \E r \in Roles :
        /\ timers[r] > 0
        /\ Step(Run(reconnectTimer(Cur, r)))

Disconnect ==
    \E d \in 1..MaxDisconnects :
        /\ shutdown[d] = "idle"
        /\ \A e \in 1..(d - 1) : shutdown[e] # "idle"
        /\ Step(Run(disconnect(Cur, d)))

ShutdownTimer ==
    \E d \in 1..MaxDisconnects :
        /\ shutdown[d] \in Roles
        /\ Step(Run(shutdownTimer(Cur, d)))

\* A frame arrives on a subscriber socket that is open, or that has been
\* asked to close and has not closed yet.
Receiving(k) ==
    attempts["subscriber"][k].readyState \in {"OPEN", "CLOSING"}

SocketMessage ==
    \E k \in 1..Len(attempts["subscriber"]), frame \in FrameInputs :
        /\ Receiving(k)
        /\ Step(Run(onmessage(Cur, frame)))

Next ==
    \/ OnStateChange
    \/ Publish
    \/ Subscribe
    \/ Unsubscribe
    \/ SocketOpen
    \/ SocketError
    \/ SocketClose
    \/ ReconnectTimer
    \/ Disconnect
    \/ ShutdownTimer
    \/ SocketMessage

Spec == Init /\ [][Next]_vars

\* ------------------------------------------------------------ vocabulary
\* the transports constructed for role r so far
Built(r) == IF r \in ctorThrows THEN 0 ELSE Len(attempts[r])

\* the transports of role r that are connecting or open
Live(r) ==
    {k \in 1..Len(attempts[r]) :
        attempts[r][k].readyState \in {"CONNECTING", "OPEN"}}

\* the connect attempts of role r that have not settled
InFlight(r) ==
    {k \in 1..Len(attempts[r]) :
        /\ attempts[r][k].promise = "pending"
        /\ attempts[r][k].readyState # "CLOSED"}

HasOpenSocket(r) == isSocketConnected(Cur, r)

\* the operation that triggers the connection of role r, as a step
UserCall(r) == IF r = "publisher" THEN Publish ELSE Subscribe

\* C1: a publish (subscribe) call issued while the role has no open socket
\* and an earlier connect attempt of the role has not settled constructs no
\* transport: the calls of such a group share the one construction of the
\* first.
C1_JoinersConstructNothing ==
    [][\A r \in Roles :
          (UserCall(r) /\ ~HasOpenSocket(r) /\ InFlight(r) # {})
              => Built(r)' = Built(r)]_vars

\* C2: in every reachable state each role has at most one transport that is
\* connecting or open.
C2_OneLiveTransport ==
    \A r \in Roles : Cardinality(Live(r)) <= 1

\* C3: in every reachable state at most one connect attempt per role is in
\* flight (the callers of one attempt share its promise, hence its outcome).
C3_OneAttemptInFlight ==
    \A r \in Roles : Cardinality(InFlight(r)) <= 1

\* C4: no macrotask constructs two transports for one role, whatever the
\* state-change listeners do during its notifications.
C4_OneConstructionPerTurn ==
    [][\A r \in Roles : Built(r)' <= Built(r) + 1]_vars

\* C5: once a disconnect() call has resolved, both roles are DISCONNECTED.
C5_DisconnectedAfterDisconnect ==
    (\E d \in 1..MaxDisconnects : shutdown[d] = "done")
        => \A r \in Roles : connState[r] = DISCONNECTED

\* What a publish (subscribe) call made in the current state does.
CallNow(r) ==
    IF r = "publisher" THEN Run(publish(Cur))
    ELSE Run(subscribe(Cur, "cb1", <<"t1">>))

CallOf(r) ==
    IF r = "publisher" THEN PublishCall ELSE SubscribeCall("cb1", <<"t1">>)

Rejection(w, err) ==
    [op |-> w.op, role |-> w.role, call |-> w.call, result |-> "rejected",
     error |-> err, attempt |-> 0]

\* the fields of the client that a step result s leaves as they are
SameClient(s) ==
    /\ s.connState = connState
    /\ s.socket = socket
    /\ s.connectPromise = connectPromise
    /\ s.reconnectAttempts = reconnectAttempts
    /\ s.listeners = listeners
    /\ s.attempts = attempts
    /\ s.timers = timers
    /\ s.constructed = 0
    /\ s.notes = <<>>

NoAttemptInFlight(r) ==
    \/ connectPromise[r] = 0
    \/ attempts[r][connectPromise[r]].promise # "pending"

C7_RejectsOnceShuttingDown ==
    /\ [](isDisconnecting =>
            \A r \in Roles :
                (~HasOpenSocket(r) /\ NoAttemptInFlight(r)) =>
                    /\ SameClient(CallNow(r))
                    /\ CallNow(r).settled =
                           <<Rejection(CallOf(r), "Client is disconnecting")>>)
    /\ [][isDisconnecting => isDisconnecting']_vars

\* ------------------------------------------------------------- liveness
\* The shutdown timer of disconnect() is a setTimeout of 1000 ms (lines
\* 1369-1377, 1410-1418): once armed it fires.  Nothing else is assumed to
\* happen: a transport may stay silent for ever.
\*
\* TimerArmed is ENABLED <<ShutdownTimer>>_vars written as a state predicate
\* (TimerCanFire, which C8 checks in every state, is the direction that does
\* not follow from the guard of ShutdownTimer), so the fairness condition
\* of LiveSpec is weak fairness of ShutdownTimer, spelled out.
TimerArmed == \E d \in 1..MaxDisconnects : shutdown[d] \in Roles

TimerCanFire ==
    \A d \in 1..MaxDisconnects :
        shutdown[d] \in Roles =>
            LET res == Run(shutdownTimer(Cur, d))
            IN Fits(res) /\ res.shutdown[d] \in {NextRole(shutdown[d]), "done"}

LiveSpec == Spec /\ ([]<>(~TimerArmed) \/ []<><<ShutdownTimer>>_vars)

\* C8: every disconnect() call that has been made eventually resolves,
\* whether or not the transports ever deliver their close events: its
\* shutdown timer, while armed, can fire and moves the call on to the next
\* role or to its end.
C8_DisconnectResolves ==
    /\ []TimerCanFire
    /\ \A d \in 1..MaxDisconnects :
           (shutdown[d] # "idle") ~> (shutdown[d] = "done")

\* a disconnect() that has resolved although a transport it asked to close
\* has delivered no close event
C8_Witness ==
    /\ \E d \in 1..MaxDisconnects : shutdown[d] = "done"
    /\ \E r \in Roles : \E k \in 1..Len(attempts[r]) :
           attempts[r][k].readyState = "CLOSING"

C10_RetryCounterBounded ==
    \A r \in Roles : reconnectAttempts[r] \in 0..maxReconnectAttempts

\* the counter at the ceiling while two reconnect timers of the role are
\* pending at once
C10_Witness ==
    \E r \in Roles :
        /\ reconnectAttempts[r] = maxReconnectAttempts
        /\ timers[r] >= 2

\* --------------------------------------------------- reconnection claims
\* the logs of a record emptied: the next macrotask starts from it
Fresh(s) ==
    [s EXCEPT !.constructed = 0, !.notes = <<>>, !.heard = <<>>,
              !.invoked = <<>>, !.sent = <<>>, !.raised = <<>>,
              !.settled = <<>>]

\* Role r is CONNECTED through its current socket, which is open; auto
\* reconnect is on, shutdown has not begun and no state-change listener is
\* about to make a user call of its own.
ConnectedQuiet(r) ==
    /\ socket[r] \notin {0, Closed}
    /\ attempts[r][socket[r]].readyState = "OPEN"
    /\ connState[r] = CONNECTED
    /\ autoReconnect
    /\ ~isDisconnecting
    /\ (stateChangeListeners = <<>> \/ reentered)

\* the newest socket of role r fails before opening: `error` then `close`,
\* or `close` alone
FailNewest(s, r, withError) ==
    LET k == Len(s.attempts[r])
    IN IF withError THEN Run(onclose(Run(onerror(s, r, k)), r, k))
       ELSE Run(onclose(s, r, k))

\* The reconnect timers of role r fire one after the other, at most n of
\* them, and every attempt they start fails before opening.
RECURSIVE RetryChain(_, _, _, _)
RetryChain(s, r, withError, n) ==
    IF n = 0 \/ s.timers[r] = 0 THEN s
    ELSE LET s1 == Run(reconnectTimer(s, r))
             s2 == IF s1.constructed > s.constructed
                   THEN FailNewest(s1, r, withError)
                   ELSE s1
         IN RetryChain(s2, r, withError, n - 1)

\* what follows the unexpected close of the open socket of role r, after
\* an `error` event of that socket or without one, with no user call
AfterClose(r, errorFirst) ==
    LET k == socket[r]
        s0 == IF errorFirst THEN Run(onerror(Cur, r, k)) ELSE Cur
    IN Run(onclose(Fresh(s0), r, k))

\* C11: after the first socket of a role has opened and then closes
\* unexpectedly, if every later attempt fails before opening, the role makes
\* exactly maxReconnectAttempts automatic attempts and stops in DISCONNECTED
\* with no timer pending.
C11_RetriesExactlyToCeiling ==
    \A r \in Roles :
        (ConnectedQuiet(r) /\ Len(attempts[r]) = 1 /\ timers[r] = 0) =>
            \A errorFirst \in BOOLEAN, withError \in BOOLEAN :
                LET end == RetryChain(AfterClose(r, errorFirst), r, withError,
                                      maxReconnectAttempts + 1)
                IN /\ end.constructed = maxReconnectAttempts
                   /\ end.reconnectAttempts[r] = maxReconnectAttempts
                   /\ end.timers[r] = 0
                   /\ end.connState[r] = DISCONNECTED

\* C12: when the open socket of a CONNECTED role closes unexpectedly with
\* the retry counter below the ceiling, a reconnect timer is armed; when it
\* fires, one CONNECTING transition and one transport construction follow,
\* and if that transport opens the role is CONNECTED again.
C12_CloseLeadsToReconnect ==
    \A r \in Roles :
        (/\ ConnectedQuiet(r)
         /\ reconnectAttempts[r] < maxReconnectAttempts
         /\ Len(attempts[r]) < MaxSockets) =>
            LET s1 == AfterClose(r, FALSE)
                s2 == Run(reconnectTimer(Fresh(s1), r))
                k2 == Len(attempts[r]) + 1
                s3 == Run(onopen(Fresh(s2), r, k2))
            IN /\ s1.connState[r] = RECONNECTING
               /\ s1.timers[r] = timers[r] + 1
               /\ s1.constructed = 0
               /\ s2.notes = <<<<CONNECTING, r>>>>
               /\ s2.constructed = 1
               /\ Len(s2.attempts[r]) = k2
               /\ s2.socket[r] = k2
               /\ s3.connState[r] = CONNECTED
               /\ isSocketConnected(s3, r)

\* a role that is CONNECTED again on its second socket, the first one gone
C12_Witness ==
    \E r \in Roles :
        /\ ConnectedQuiet(r)
        /\ socket[r] = 2
        /\ attempts[r][1] = Gone
        /\ reconnectAttempts[r] = 0
        /\ AfterClose(r, FALSE).timers[r] = timers[r] + 1

\* C13: when the open socket of a CONNECTED role fires `error` and then
\* `close`, with the retry counter below the ceiling, the close invokes the
\* reconnect scheduler: RECONNECTING, and a timer armed.
C13_CloseAfterErrorReconnects ==
    \A r \in Roles :
        (ConnectedQuiet(r) /\ reconnectAttempts[r] < maxReconnectAttempts) =>
            LET s1 == AfterClose(r, TRUE)
            IN /\ s1.timers[r] = timers[r] + 1
               /\ <<RECONNECTING, r>> \in {s1.notes[i] : i \in 1..Len(s1.notes)}

\* ------------------------------------------------ dispatch after shutdown
\* a disconnect() call has resolved
DisconnectResolved == \E d \in 1..MaxDisconnects : shutdown[d] = "done"

\* C15: once a disconnect() call has resolved, a message event of any
\* subscriber socket invokes no callback.
C15_NoDispatchAfterDisconnect ==
    DisconnectResolved =>
        \A k \in 1..Len(attempts["subscriber"]), frame \in FrameInputs :
            Receiving(k) => Run(onmessage(Cur, frame)).invoked = <<>>

\* ------------------------------------------------------ failed attempts
\* the calls awaiting attempt k of role r that the step result res rejects
RejectedBy(res, r, k) ==
    {[op |-> res.settled[j].op, call |-> res.settled[j].call] :
        j \in {i \in 1..Len(res.settled) :
                 /\ res.settled[i].role = r
                 /\ res.settled[i].attempt = k
                 /\ res.settled[i].result = "rejected"}}

\* the publish / subscribe calls awaiting attempt k of role r
Awaiting(r, k) ==
    {[op |-> attempts[r][k].waiters[i].op, call |-> attempts[r][k].waiters[i].call] :
        i \in {j \in 1..Len(attempts[r][k].waiters) :
                 attempts[r][k].waiters[j].op \in {"publish", "subscribe"}}}

\* the calls of kind op that the step result res settles with result
Outcomes(res, op, result) ==
    {i \in 1..Len(res.settled) :
        res.settled[i].op = op /\ res.settled[i].result = result}

\* In the step result res an envelope is sent only by a publish that was
\* resolved and the registry changes only by a subscribe that was resolved.
OnlyResolvedCallsAct(res) ==
    /\ Len(res.sent) <= Cardinality(Outcomes(res, "publish", "resolved"))
    /\ (res.listeners # listeners => Outcomes(res, "subscribe", "resolved") # {})

\* C19: when a socket that has not opened fires `error` or `close`, every
\* publish or subscribe call awaiting its attempt is rejected in that step;
\* a call made under the shutdown flag with no open socket and no handle is
\* rejected likewise; a rejected publish sends no envelope and a rejected
\* subscribe registers nothing.
C19_FailedAttemptRejects ==
    /\ \A r \in Roles : \A k \in 1..Len(attempts[r]) :
          attempts[r][k].readyState = "CONNECTING" =>
              \A res \in {Run(onerror(Cur, r, k)), Run(onclose(Cur, r, k))} :
                  /\ Awaiting(r, k) \subseteq RejectedBy(res, r, k)
                  /\ OnlyResolvedCallsAct(res)
    /\ \A r \in Roles :
          (isDisconnecting /\ ~HasOpenSocket(r) /\ connectPromise[r] = 0) =>
              LET res == CallNow(r)
              IN /\ Len(res.settled) = 1
                 /\ res.settled[1].result = "rejected"
                 /\ res.sent = <<>>
                 /\ res.listeners = listeners

\* ------------------------------------------------- the dispatch pipeline
\* A subscriber-only client whose one socket stays up, explored with more
\* callbacks, topics and frames than Spec: its registry holds up to
\* MaxDispatchRegistrations callbacks.
MaxDispatchRegistrations == 4

DispatchCallbacks == {"cb1", "cb2", "thrower", "remover"}
DispatchTopicInputs == {<<"t1">>, <<"t1", TOPIC_ALL>>, <<"t1", "constructor">>}
DispatchTopics == {"t1", "t2", TOPIC_ALL, "constructor"}
DispatchFrames ==
    {Frame(TRUE, topic, TRUE) : topic \in {"t1", "t2", "constructor"}}
        \cup {Frame(FALSE, "t1", TRUE), Frame(TRUE, "t1", FALSE)}

DispatchInit ==
    /\ Init
    /\ driven = {"subscriber"}
    /\ ~autoReconnect
    /\ ctorThrows = {}

DispatchFits(s) ==
    /\ Len(s.attempts["subscriber"]) <= 1
    /\ \A k \in 1..Len(s.attempts["subscriber"]) :
         Len(s.attempts["subscriber"][k].waiters) <= MaxWaiters
    /\ Registrations(s) <= MaxDispatchRegistrations

DispatchStep(s) == DispatchFits(s) /\ Commit(s)

DispatchRoom ==
    Registrations(Cur) + PendingSubscribes(Cur, Len(attempts["subscriber"]))
        < MaxDispatchRegistrations

DispatchSubscribe ==
    \E cb \in DispatchCallbacks, topics \in DispatchTopicInputs :
        /\ DispatchRoom
        /\ DispatchStep(Run(subscribe(Cur, cb, topics)))

DispatchSubscribeAll ==
    \E cb \in DispatchCallbacks :
        /\ DispatchRoom
        /\ DispatchStep(Run(subscribe(Cur, cb, "omitted")))

DispatchUnsubscribe ==
    \E topic \in DispatchTopics, cb \in DispatchCallbacks \cup {"none"} :
        DispatchStep(Run(unsubscribe(Cur, topic, cb)))

DispatchOpen ==
    \E k \in 1..Len(attempts["subscriber"]) :
        /\ attempts["subscriber"][k].readyState = "CONNECTING"
        /\ DispatchStep(Run(onopen(Cur, "subscriber", k)))

DispatchMessage ==
    \E k \in 1..Len(attempts["subscriber"]), frame \in DispatchFrames :
        /\ Receiving(k)
        /\ DispatchStep(Run(onmessage(Cur, frame)))

DispatchNext ==
    \/ DispatchSubscribe
    \/ DispatchSubscribeAll
    \/ DispatchUnsubscribe
    \/ DispatchOpen
    \/ DispatchMessage

DispatchSpec == DispatchInit /\ [][DispatchNext]_vars

\* ------------------------------------------------------- dispatch claims
\* the subscriber has a socket that can deliver a message event
CanReceive == \E k \in 1..Len(attempts["subscriber"]) : Receiving(k)

\* the callbacks a step result invoked, with the entry each was taken from
Invocations(res) ==
    [i \in 1..Len(res.invoked) |->
        [callback |-> res.invoked[i].callback, via |-> res.invoked[i].via]]

\* what a dispatch of topic over the registry reg is to invoke
Due(reg, topic) ==
    Tagged(listenersOf(reg, topic), topic)
        \o Tagged(listenersOf(reg, TOPIC_ALL), TOPIC_ALL)

\* the one subscribe call awaiting the connection, if there is exactly one
OnlyPending ==
    IF /\ Len(attempts["subscriber"]) = 1
       /\ attempts["subscriber"][1].readyState = "CONNECTING"
       /\ Len(attempts["subscriber"][1].waiters) = 1
    THEN {attempts["subscriber"][1].waiters[1]}
    ELSE {}

\* C14: a dispatch invokes a callback only on account of a registration
\* that is still in the registry when the callback is called, also when an
\* earlier callback of the same dispatch has unsubscribed it; and a
\* callback unsubscribed while its subscribe call awaits the connection is
\* not invoked for that topic once the connection is up.
C14_NoInvocationAfterUnsubscribe ==
    /\ CanReceive =>
          \A frame \in DispatchFrames :
              LET res == Run(onmessage(Cur, frame))
              IN \A i \in 1..Len(res.invoked) : res.invoked[i].registered
    /\ \A w \in OnlyPending : \A j \in 1..Len(w.topics) :
          ~Shadowed(listeners, w.topics[j]) =>
              LET T == w.topics[j]
                  s1 == Run(unsubscribe(Cur, T, w.callback))
                  s2 == Run(onopen(Fresh(s1), "subscriber", 1))
                  s3 == Run(onmessage(Fresh(s2), Frame(TRUE, "t1", TRUE)))
              IN \A i \in 1..Len(s3.invoked) :
                    ~(s3.invoked[i].callback = w.callback /\ s3.invoked[i].via = T)

\* C16: with callbacks under a topic T and under the wildcard, one
\* well-formed envelope for T invokes each registration under T in
\* registration order and then each wildcard registration in registration
\* order, once each.
C16_TopicThenWildcardOrder ==
    \A T \in DOMAIN listeners \ {TOPIC_ALL} :
        (CanReceive /\ TOPIC_ALL \in DOMAIN listeners) =>
            Invocations(Run(onmessage(Cur, Frame(TRUE, T, TRUE))))
                = Tagged(listeners[T], T) \o Tagged(listeners[TOPIC_ALL], TOPIC_ALL)

\* two callbacks under "t1" and two under the wildcard, all four invoked
C16_Witness ==
    /\ CanReceive
    /\ DOMAIN listeners = {"t1", TOPIC_ALL}
    /\ Len(listeners["t1"]) = 2
    /\ Len(listeners[TOPIC_ALL]) = 2
    /\ listeners["t1"][1] # listeners["t1"][2]
    /\ Len(Run(onmessage(Cur, Frame(TRUE, "t1", TRUE))).invoked) = 4

\* position of the first throwing callback in a dispatch list, 0 if none
FirstThrower(ls) ==
    IF \E i \in 1..Len(ls) : ls[i].callback = "thrower"
    THEN CHOOSE i \in 1..Len(ls) :
            /\ ls[i].callback = "thrower"
            /\ \A j \in 1..(i - 1) : ls[j].callback # "thrower"
    ELSE 0

\* the dispatch list holds a callback that changes the registry itself
HasRemover(ls) == \E i \in 1..Len(ls) : ls[i].callback = "remover"

\* C17: in a dispatch where a callback throws, the callbacks after it are
\* invoked all the same; the throw changes neither the registry nor the
\* connection state, and the next envelope is dispatched as it would have
\* been.
C17_ThrowingCallbackIsolated ==
    \A frame \in DispatchFrames :
        LET ls == Due(listeners, frame.topic)
            res == Run(onmessage(Cur, frame))
        IN (/\ CanReceive
            /\ frame.outer /\ frame.inner
            /\ ~Shadowed(listeners, frame.topic)
            /\ FirstThrower(ls) # 0) =>
               /\ Invocations(res) = ls
               /\ res.connState = connState
               /\ res.attempts = attempts
               /\ res.socket = socket
               /\ (~HasRemover(ls) =>
                      /\ res.listeners = listeners
                      /\ \A next \in DispatchFrames :
                            Run(onmessage(Fresh(res), next)).invoked
                                = Run(onmessage(Cur, next)).invoked)

\* a thrower registered under "t1" ahead of another callback, both invoked
C17_Witness ==
    /\ CanReceive
    /\ "t1" \in DOMAIN listeners
    /\ Len(listeners["t1"]) >= 2
    /\ listeners["t1"][1] = "thrower"
    /\ listeners["t1"][2] = "cb2"
    /\ Len(Run(onmessage(Cur, Frame(TRUE, "t1", TRUE))).invoked) >= 2

\* C18: unsubscribe(topic, cb) for a callback that is not registered under
\* topic raises no error and leaves the registry as it is.
C18_UnsubscribeUnregisteredIsNoOp ==
    \A topic \in DispatchTopics, cb \in DispatchCallbacks :
        ~IsRegistered(listeners, topic, cb) =>
            LET res == Run(unsubscribe(Cur, topic, cb))
            IN /\ res.raised = <<>>
               /\ res.listeners = listeners

\* ---------------------------------------------- the state change notifier
\* A publisher-only client explored with up to MaxObservers state-change
\* listeners of every kind.
MaxObservers == 2
MaxObservedSockets == 2

ListenerInit ==
    /\ Init
    /\ driven = {"publisher"}
    /\ ctorThrows = {}

ListenerFits(s) ==
    /\ Len(s.attempts["publisher"]) <= MaxObservedSockets
    /\ s.timers["publisher"] <= 1
    /\ \A k \in 1..Len(s.attempts["publisher"]) :
         Len(s.attempts["publisher"][k].waiters) <= MaxWaiters

ListenerStep(s) == ListenerFits(s) /\ Commit(s)

ListenerRegister ==
    \E kind \in ListenerKinds :
        /\ Len(stateChangeListeners) < MaxObservers
        /\ ListenerStep(Run(onStateChange(Cur, kind)))

ListenerPublish ==
    /\ shutdown[1] = "idle"
    /\ ListenerStep(Run(publish(Cur)))

ListenerOpen ==
    \E k \in 1..Len(attempts["publisher"]) :
        /\ attempts["publisher"][k].readyState = "CONNECTING"
        /\ ListenerStep(Run(onopen(Cur, "publisher", k)))

ListenerError ==
    \E k \in 1..Len(attempts["publisher"]) :
        /\ attempts["publisher"][k].readyState # "CLOSED"
        /\ ~attempts["publisher"][k].errorFired
        /\ ListenerStep(Run(onerror(Cur, "publisher", k)))

ListenerClose ==
    \E k \in 1..Len(attempts["publisher"]) :
        /\ attempts["publisher"][k].readyState # "CLOSED"
        /\ ListenerStep(Run(onclose(Cur, "publisher", k)))

ListenerTimer ==
    /\ timers["publisher"] > 0
    /\ ListenerStep(Run(reconnectTimer(Cur, "publisher")))

ListenerDisconnect ==
    /\ shutdown[1] = "idle"
    /\ ListenerStep(Run(disconnect(Cur, 1)))

ListenerShutdownTimer ==
    /\ shutdown[1] \in Roles
    /\ ListenerStep(Run(shutdownTimer(Cur, 1)))

ListenerNext ==
    \/ ListenerRegister
    \/ ListenerPublish
    \/ ListenerOpen
    \/ ListenerError
    \/ ListenerClose
    \/ ListenerTimer
    \/ ListenerDisconnect
    \/ ListenerShutdownTimer

ListenerSpec == ListenerInit /\ [][ListenerNext]_vars

\* the results of the socket events that role r can receive
EventTurns(r) ==
    {Run(onopen(Cur, r, k)) : k \in {j \in 1..Len(attempts[r]) :
        attempts[r][j].readyState = "CONNECTING"}}
      \cup {Run(onerror(Cur, r, k)) : k \in {j \in 1..Len(attempts[r]) :
              attempts[r][j].readyState # "CLOSED" /\ ~attempts[r][j].errorFired}}
      \cup {Run(onclose(Cur, r, k)) : k \in {j \in 1..Len(attempts[r]) :
              attempts[r][j].readyState # "CLOSED"}}

\* the results of the macrotasks that can run in the current state
Turns ==
    {Run(publish(Cur))}
      \cup UNION {EventTurns(r) : r \in Roles}
      \cup {Run(reconnectTimer(Cur, r)) : r \in {x \in Roles : timers[x] > 0}}
      \cup {Run(disconnect(Cur, d)) : d \in {e \in 1..MaxDisconnects :
               shutdown[e] = "idle"}}
      \cup {Run(shutdownTimer(Cur, d)) : d \in {e \in 1..MaxDisconnects :
               shutdown[e] \in Roles}}

\* the notifications listener i received in the step result res, in order
HeardBy(res, i) ==
    LET mine(e) == e[1] = i
        own == SelectSeq(res.heard, mine)
    IN [j \in 1..Len(own) |-> <<own[j][2], own[j][3]>>]

\* C20: in every step, each registered state-change listener, a throwing
\* one and those after it included, receives the (state, role) of every
\* transition of the step, in the order in which the transitions happen.
C20_ListenersHearEveryTransitionInOrder ==
    \A res \in Turns : \A i \in 1..Len(stateChangeListeners) :
        HeardBy(res, i) = res.notes

\* ------------------------------------------------ detaching in a pass
\* no registered listener is about to make a user call of its own
NoneReentering ==
    reentered \/ \A i \in 1..Len(stateChangeListeners) :
                    stateChangeListeners[i] # "reenter"

\* a listener that detaches "observer" is registered
HasDetacher ==
    \E i \in 1..Len(stateChangeListeners) : stateChangeListeners[i] = "detacher"

\* C21: a detachment made by a listener during a notification pass leaves
\* the pass as it was: each listener registered when the pass began is
\* invoked once, in order; the detached listener is out of the field after
\* the pass and no later pass invokes it.
C21_DetachDuringPassIsDeferred ==
    NoneReentering =>
        \A state \in ConnectionState, r \in Roles :
            LET n == Len(stateChangeListeners)
                res == notifyStateChangeListeners(Cur, state, r)
                later == notifyStateChangeListeners(Fresh(res), state, r)
            IN /\ res.heard = [i \in 1..n |-> <<i, state, r>>]
               /\ HasDetacher =>
                     /\ \A i \in 1..Len(res.stateChangeListeners) :
                           res.stateChangeListeners[i] # "observer"
                     /\ Len(later.heard) = Len(res.stateChangeListeners)
                     /\ \A j \in 1..Len(later.heard) :
                           res.stateChangeListeners[later.heard[j][1]] # "observer"

\* the detacher registered ahead of the listener it detaches
C21_Witness ==
    /\ stateChangeListeners = <<"detacher", "observer">>
    /\ Len(notifyStateChangeListeners(Cur, CONNECTED, "publisher").heard) = 2
    /\ notifyStateChangeListeners(Cur, CONNECTED, "publisher").stateChangeListeners
           = <<"detacher">>

\* ------------------------------------------------------- the round trip
\* A client that publishes and subscribes on one channel: the endpoint
\* relays every envelope sent on the open publisher socket to the
\* subscriber socket, unchanged and in order.
MaxWire == 1
MaxRoundTripRegistrations == 2

PayloadKeys == {{}, {"a"}, {"a", "b"}}
Payloads == UNION {[K -> Values] : K \in PayloadKeys}
RoundTripTopics == {"t1", "t2"}

RoundTripInit ==
    /\ Init
    /\ driven = Roles
    /\ ~autoReconnect
    /\ ctorThrows = {}

\* the envelopes of step result s that went out on an open socket, each
\* with the topic and payload object it was made from
Relayed(s) ==
    LET out(e) == /\ e.socket \in 1..Len(s.attempts["publisher"])
                  /\ s.attempts["publisher"][e.socket].readyState = "OPEN"
        gone == SelectSeq(s.sent, out)
    IN [i \in 1..Len(gone) |->
           [text |-> gone[i].text, topic |-> gone[i].topic,
            payload |-> gone[i].payload]]

RoundTripFits(s) ==
    /\ \A r \in Roles :
         /\ Len(s.attempts[r]) <= 1
         /\ \A k \in 1..Len(s.attempts[r]) : Len(s.attempts[r][k].waiters) <= 1
    /\ Registrations(s) <= MaxRoundTripRegistrations
    /\ Len(wire) + Len(Relayed(s)) <= MaxWire

RoundTripStep(s) ==
    /\ RoundTripFits(s)
    /\ CommitClient(s)
    /\ wire' = wire \o Relayed(s)

RoundTripPublish ==
    \E topic \in RoundTripTopics, payload \in Payloads :
        RoundTripStep(Run(publishWith(Cur, topic, payload)))

RoundTripSubscribe ==
    \E topic \in RoundTripTopics :
        /\ Registrations(Cur) + PendingSubscribes(Cur, Len(attempts["subscriber"]))
               < MaxRoundTripRegistrations
        /\ RoundTripStep(Run(subscribe(Cur, "cb1", <<topic>>)))

RoundTripOpen ==
    \E r \in Roles : \E k \in 1..Len(attempts[r]) :
        /\ attempts[r][k].readyState = "CONNECTING"
        /\ RoundTripStep(Run(onopen(Cur, r, k)))

RoundTripDeliver ==
    /\ wire # <<>>
    /\ CanReceive
    /\ CommitClient(Run(onmessage(Cur, frameOf(Head(wire).text))))
    /\ wire' = Tail(wire)

RoundTripNext ==
    \/ RoundTripPublish
    \/ RoundTripSubscribe
    \/ RoundTripOpen
    \/ RoundTripDeliver

RoundTripSpec == RoundTripInit /\ [][RoundTripNext]_vars

\* every value of the payload has a JSON form of its own
Representable(payload) ==
    \A k \in DOMAIN payload : payload[k] \notin {"NaN", "undefined"}

\* the relayed envelope e, received now, invokes a callback registered for
\* its topic with that topic and a payload equal to the published one
Survives(e) ==
    LET res == Run(onmessage(Cur, frameOf(e.text)))
    IN /\ \E j \in 1..Len(res.invoked) : res.invoked[j].via = e.topic
       /\ frameOf(e.text).inner
       /\ delivered(e.text) = <<e.topic, e.payload>>

\* C22 as stated: every published payload object, relayed to a subscriber
\* with a callback registered for its topic, reaches the callback with the
\* topic and a structurally equal object.
C22_RoundTripAnyPayload ==
    \A i \in 1..Len(wire) :
        (CanReceive /\ wire[i].topic \in DOMAIN listeners) => Survives(wire[i])

\* C22 amended: the same for payload objects whose values all have a JSON
\* form (no undefined, no NaN).
C22_RoundTripJsonPayload ==
    \A i \in 1..Len(wire) :
        (/\ CanReceive
         /\ wire[i].topic \in DOMAIN listeners
         /\ Representable(wire[i].payload)) => Survives(wire[i])

\* a payload with a number and a string on the wire, its topic subscribed
C22_Witness ==
    /\ Len(wire) = 1
    /\ wire[1].payload = [k \in {"a", "b"} |->
                             IF k = "a" THEN "number 1" ELSE "string x"]
    /\ CanReceive
    /\ wire[1].topic \in DOMAIN listeners
    /\ Survives(wire[1])

\* ----------------------------------------------------- the connect handle
\* C23: the in-flight handle of a role never holds an attempt that has
\* settled: after success, failure, terminal error or a throwing
\* construction the handle is empty.
C23_HandleClearedWhenSettled ==
    \A r \in Roles :
        connectPromise[r] # 0 =>
            attempts[r][connectPromise[r]].promise = "pending"

\* C24: a publish (subscribe) call made while the socket of its role is
\* open resolves without any work on the connection: no transition, no
\* notification, no construction, and the retry counter, the handle and
\* the sockets stay as they are.
C24_ConnectedCallDoesNoWork ==
    \A r \in Roles :
        (/\ socket[r] \in 1..Len(attempts[r])
         /\ attempts[r][socket[r]].readyState = "OPEN") =>
            LET res == CallNow(r)
            IN /\ Len(res.settled) = 1
               /\ res.settled[1].result = "resolved"
               /\ res.notes = <<>>
               /\ res.heard = <<>>
               /\ res.constructed = 0
               /\ res.connState = connState
               /\ res.reconnectAttempts = reconnectAttempts
               /\ res.connectPromise = connectPromise
               /\ res.attempts = attempts
               /\ res.socket = socket
               /\ res.timers = timers

\* a connected publisher with a state-change listener registered
C24_Witness ==
    /\ socket["publisher"] = 1
    /\ attempts["publisher"][1].readyState = "OPEN"
    /\ connState["publisher"] = CONNECTED
    /\ stateChangeListeners # <<>>
    /\ CallNow("publisher").settled # <<>>

\* ------------------------------------------ attempts denied before opening
\* attempt k of role r was started by a publish or subscribe call and its
\* socket has fired no event yet
UserAttempt(r, k) ==
    /\ attempts[r][k].readyState = "CONNECTING"
    /\ attempts[r][k].waiters # <<>>
    /\ attempts[r][k].waiters[1].op \in {"publish", "subscribe"}

\* the errors with which the step result res rejects calls joined to
\* attempt k of role r
RejectionErrors(res, r, k) ==
    {res.settled[i].error :
        i \in {j \in 1..Len(res.settled) :
                 /\ res.settled[j].role = r
                 /\ res.settled[j].attempt = k
                 /\ res.settled[j].result = "rejected"}}

\* C25: when the socket of a user-initiated attempt closes without having
\* opened, the role is DISCONNECTED, every joined call is rejected with the
\* connection-denied error, and no reconnection is scheduled: no
\* RECONNECTING, no timer, counter unchanged, nothing constructed.
C25_DeniedAttemptIsNotRetried ==
    \A r \in Roles : \A k \in 1..Len(attempts[r]) :
        (UserAttempt(r, k) /\ NoneReentering) =>
            LET res == Run(onclose(Cur, r, k))
            IN /\ res.connState[r] = DISCONNECTED
               /\ Awaiting(r, k) \subseteq RejectedBy(res, r, k)
               /\ RejectionErrors(res, r, k) \subseteq {"Denied"}
               /\ \A i \in 1..Len(res.notes) : res.notes[i][1] # RECONNECTING
               /\ res.timers = timers
               /\ res.reconnectAttempts = reconnectAttempts
               /\ res.constructed = 0

\* ------------------------------------------------------ the retry budget
\* A publisher-only client with auto reconnect and no listeners, explored
\* over more sockets than Spec: enough for a retry chain that runs out, a
\* user call that connects again and a second chain.
MaxRetrySockets == 6

RetryInit ==
    /\ Init
    /\ driven = {"publisher"}
    /\ autoReconnect
    /\ ctorThrows = {}

RetryFits(s) ==
    /\ Len(s.attempts["publisher"]) <= MaxRetrySockets
    /\ s.timers["publisher"] <= 1
    /\ \A k \in 1..Len(s.attempts["publisher"]) :
         Len(s.attempts["publisher"][k].waiters) <= MaxWaiters

RetryStep(s) == RetryFits(s) /\ Commit(s)

RetryPublish == RetryStep(Run(publish(Cur))) /\ TRUE

RetryOpen ==
    \E k \in 1..Len(attempts["publisher"]) :
        /\ attempts["publisher"][k].readyState = "CONNECTING"
        /\ RetryStep(Run(onopen(Cur, "publisher", k)))

RetryError ==
    \E k \in 1..Len(attempts["publisher"]) :
        /\ attempts["publisher"][k].readyState = "CONNECTING"
        /\ ~attempts["publisher"][k].errorFired
        /\ RetryStep(Run(onerror(Cur, "publisher", k)))

RetryClose ==
    \E k \in 1..Len(attempts["publisher"]) :
        /\ attempts["publisher"][k].readyState # "CLOSED"
        /\ RetryStep(Run(onclose(Cur, "publisher", k)))

RetryTimer ==
    /\ timers["publisher"] > 0
    /\ RetryStep(Run(reconnectTimer(Cur, "publisher")))

RetryNext ==
    \/ RetryPublish
    \/ RetryOpen
    \/ RetryError
    \/ RetryClose
    \/ RetryTimer

RetrySpec == RetryInit /\ [][RetryNext]_vars

\* the results of the macrotasks of role r, other than the open of a
\* socket, that can run in the current state
TurnsButOpen(r) ==
    {CallNow(r)}
      \cup {Run(onerror(Cur, r, k)) : k \in {j \in 1..Len(attempts[r]) :
              attempts[r][j].readyState # "CLOSED" /\ ~attempts[r][j].errorFired}}
      \cup {Run(onclose(Cur, r, k)) : k \in {j \in 1..Len(attempts[r]) :
              attempts[r][j].readyState # "CLOSED"}}
      \cup {Run(reconnectTimer(Cur, r)) : x \in {y \in {r} : timers[y] > 0}}

\* the retries of role r have run out: counter at the ceiling, no timer
\* pending, no socket left, no attempt in flight and no shutdown begun
Exhausted(r) ==
    /\ reconnectAttempts[r] = maxReconnectAttempts
    /\ timers[r] = 0
    /\ connState[r] = DISCONNECTED
    /\ connectPromise[r] = 0
    /\ \A k \in 1..Len(attempts[r]) : attempts[r][k].readyState = "CLOSED"
    /\ ~isDisconnecting
    /\ NoneReentering

\* the retry chain that follows the close of the open socket of role r in
\* the record s, every retry failing
ChainAfter(s, r, withError) ==
    RetryChain(Run(onclose(Fresh(s), r, s.socket[r])), r, withError,
               maxReconnectAttempts + 1)

EventTurnsIn(s, r) ==
    {Run(onopen(s, r, k)) : k \in {j \in 1..Len(s.attempts[r]) :
        s.attempts[r][j].readyState = "CONNECTING"}}
      \cup {Run(onerror(s, r, k)) : k \in {j \in 1..Len(s.attempts[r]) :
              s.attempts[r][j].readyState # "CLOSED"
                  /\ ~s.attempts[r][j].errorFired}}
      \cup {Run(onclose(s, r, k)) : k \in {j \in 1..Len(s.attempts[r]) :
              s.attempts[r][j].readyState # "CLOSED"}}
      \cup {Run(reconnectTimer(s, r)) : x \in {y \in {r} : s.timers[y] > 0}}

\* the results of the macrotasks possible now that are not a call of
\* publish or subscribe by the application
OtherTurns ==
    UNION {EventTurnsIn(Cur, r) : r \in Roles}
      \cup {Run(disconnect(Cur, d)) : d \in {e \in 1..MaxDisconnects :
               shutdown[e] = "idle"}}
      \cup {Run(shutdownTimer(Cur, d)) : d \in {e \in 1..MaxDisconnects :
               shutdown[e] \in Roles}}

\* the calls of publish or subscribe that state-change listeners make
\* during the step with result res
ListenerCalls(res) == IF res.reentered /\ ~reentered THEN 1 ELSE 0

\* the open sockets of role r
OpenSockets(r) ==
    {k \in 1..Len(attempts[r]) : attempts[r][k].readyState = "OPEN"}

\* C27: with autoReconnect off no role is ever RECONNECTING, the retry
\* counters stay at zero, no reconnect timer is armed, and a step that is
\* not a call of publish or subscribe constructs no socket (but for the
\* call a state-change listener makes in it); when the socket of a
\* connected role closes, the role is DISCONNECTED with no attempt pending
\* and no later event moves it out of DISCONNECTED.
C27_NoAutomaticAttemptWhenDisabled ==
    ~autoReconnect =>
        /\ \A r \in Roles :
              /\ connState[r] # RECONNECTING
              /\ reconnectAttempts[r] = 0
              /\ timers[r] = 0
        /\ \A res \in OtherTurns :
              /\ res.constructed <= ListenerCalls(res)
              /\ \A i \in 1..Len(res.notes) : res.notes[i][1] # RECONNECTING
              /\ res.reconnectAttempts = reconnectAttempts
        /\ \A r \in Roles :
              (connState[r] = CONNECTED /\ ~isDisconnecting /\ NoneReentering) =>
                  \A k \in OpenSockets(r) :
                      LET closed == Run(onclose(Cur, r, k))
                      IN /\ closed.connState[r] = DISCONNECTED
                         /\ closed.connectPromise[r] = 0
                         /\ closed.constructed = 0
                         /\ \A later \in EventTurnsIn(Fresh(closed), r) :
                               later.connState[r] = DISCONNECTED

\* ------------------------------------------------------ transient states
\* a connect attempt of role r has not settled yet
AttemptPending(r) ==
    \E k \in 1..Len(attempts[r]) : attempts[r][k].promise = "pending"

\* C28: when no shutdown has begun and role r has no connect attempt
\* pending and no reconnect timer armed, the state of r is CONNECTED,
\* DISCONNECTED or ERROR.
C28_NoRoleStuckInTransientState ==
    \A r \in Roles :
        (~isDisconnecting /\ ~AttemptPending(r) /\ timers[r] = 0) =>
            connState[r] \in {CONNECTED, DISCONNECTED, ERROR}

\* ---------------------------------------------------- wildcard collapse
\* topics arguments that contain the wildcard
WildcardInputs ==
    {<<TOPIC_ALL>>, <<"t1", TOPIC_ALL>>, <<TOPIC_ALL, "t1">>,
     <<"t1", TOPIC_ALL, "t2">>, <<"constructor", TOPIC_ALL>>}

\* the registry reg with cb appended once under the wildcard and every
\* other entry as it was
WildcardOnly(reg, cb) ==
    [x \in DOMAIN reg \cup {TOPIC_ALL} |->
        IF x = TOPIC_ALL
        THEN Append(IF TOPIC_ALL \in DOMAIN reg THEN reg[TOPIC_ALL] ELSE <<>>, cb)
        ELSE reg[x]]

\* subscribe(cb, topics) registers cb under the wildcard only: at once when
\* the subscriber socket is open, and otherwise when the attempt it awaits
\* opens, after the registrations of the calls that joined before it
CollapsesToWildcard(cb, topics) ==
    LET call == Run(subscribe(Cur, cb, topics))
        k == Len(call.attempts["subscriber"])
    IN /\ isSocketConnected(Cur, "subscriber") =>
            call.listeners = WildcardOnly(listeners, cb)
       /\ (~isSocketConnected(Cur, "subscriber") /\ ~isDisconnecting /\ k > 0
             /\ call.attempts["subscriber"][k].readyState = "CONNECTING") =>
            LET before == IF Len(attempts["subscriber"]) = k
                          THEN Run(onopen(Cur, "subscriber", k)).listeners
                          ELSE listeners
            IN /\ call.listeners = listeners
               /\ Run(onopen(Fresh(call), "subscriber", k)).listeners
                      = WildcardOnly(before, cb)

\* C29: a subscribe call whose topics argument is omitted or contains the
\* wildcard appends the callback once under the wildcard and changes no
\* other entry of the registry.
C29_WildcardCollapses ==
    \A cb \in DispatchCallbacks :
        /\ CollapsesToWildcard(cb, "omitted")
        /\ \A topics \in WildcardInputs : CollapsesToWildcard(cb, topics)

\* the subscriber is connected, wildcard calls have registered callbacks
\* and "t1" has an entry of its own
C29_Witness ==
    /\ isSocketConnected(Cur, "subscriber")
    /\ TOPIC_ALL \in DOMAIN listeners
    /\ listeners[TOPIC_ALL] # <<>>
    /\ "t1" \in DOMAIN listeners
    /\ Run(subscribe(Cur, "cb2", <<"t1", TOPIC_ALL>>)).listeners["t1"]
           = listeners["t1"]

\* ------------------------------------------------------ repeated topics
\* topics arguments without the wildcard, some naming a topic twice
RepeatedInputs ==
    {<<"t1">>, <<"t1", "t2">>, <<"t1", "t1">>, <<"t1", "t2", "t1">>}

\* how many entries of the sequence ls are the callback cb
Count(ls, cb) ==
    LET same(x) == x = cb
    IN Len(SelectSeq(ls, same))

\* how many times the step with result res invoked cb from the entry of
\* the topic
InvokedFrom(res, cb, topic) ==
    LET mine(e) == e.callback = cb /\ e.via = topic
    IN Len(SelectSeq(res.invoked, mine))

\* C30: a subscribe call on a connected subscriber appends the callback
\* once under each distinct topic of its argument, however often the topic
\* is listed, and an envelope of that topic then invokes the callback once
\* more than before the call.
C30_TopicsNormalizedToSet ==
    isSocketConnected(Cur, "subscriber") =>
        \A cb \in {"cb1", "cb2"}, topics \in RepeatedInputs :
            LET call == Run(subscribe(Cur, cb, topics))
                frame == Frame(TRUE, "t1", TRUE)
                before == Run(onmessage(Cur, frame))
                after == Run(onmessage(Fresh(call), frame))
            IN /\ \A i \in 1..Len(topics) :
                     Count(listenersOf(call.listeners, topics[i]), cb)
                         = Count(listenersOf(listeners, topics[i]), cb) + 1
               /\ InvokedFrom(after, cb, "t1") = InvokedFrom(before, cb, "t1") + 1

\* ------------------------------------------------------- registry entries
\* topics arguments of subscribe, the empty array among them
EntryInputs == {<<>>, <<"t1">>, <<"t1", "t2">>, <<"t1", "t1">>}

\* no entry of the registry reg holds an empty callback list
NoEmptyEntry(reg) == \A x \in DOMAIN reg : reg[x] # <<>>

\* C31: the registry never holds an entry with an empty callback list, and
\* neither does the registry left by a subscribe call (its registrations
\* made at once on an open socket, or when the attempt it awaits opens) or
\* by an unsubscribe call with or without a callback; subscribe with an
\* empty topic array leaves the registry as it is.
C31_NoEmptyRegistryEntry ==
    /\ NoEmptyEntry(listeners)
    /\ \A topic \in DispatchTopics, cb \in DispatchCallbacks \cup {"none"} :
          NoEmptyEntry(Run(unsubscribe(Cur, topic, cb)).listeners)
    /\ \A cb \in DispatchCallbacks, topics \in EntryInputs :
          LET call == Run(subscribe(Cur, cb, topics))
              k == Len(call.attempts["subscriber"])
              opened == IF /\ ~isSocketConnected(Cur, "subscriber")
                           /\ ~isDisconnecting
                           /\ k > 0
                           /\ call.attempts["subscriber"][k].readyState
                                  = "CONNECTING"
                        THEN Run(onopen(Fresh(call), "subscriber", k))
                        ELSE call
              before == IF Len(attempts["subscriber"]) = k /\ opened # call
                        THEN Run(onopen(Cur, "subscriber", k)).listeners
                        ELSE listeners
          IN /\ NoEmptyEntry(opened.listeners)
             /\ topics = <<>> => opened.listeners = before

\* the subscriber is connected and unsubscribe calls have removed every
\* registration the subscribe calls had made
C31_Witness ==
    /\ isSocketConnected(Cur, "subscriber")
    /\ DOMAIN listeners = {}

\* --------------------------------------------------- unsubscribe's frame
\* C32: unsubscribe(topic, cb) leaves under the topic the callbacks other
\* than cb in the order they had, unsubscribe(topic) leaves none, and both
\* leave the entry of every other topic, the connection states, sockets,
\* handles, counters and timers as they were, with no socket constructed
\* and no transition notified.
C32_UnsubscribeFrame ==
    \A topic \in DispatchTopics, cb \in DispatchCallbacks \cup {"none"} :
        LET res == Run(unsubscribe(Cur, topic, cb))
            other(x) == x # cb
        IN /\ listenersOf(res.listeners, topic)
                 = IF cb = "none" THEN <<>>
                   ELSE SelectSeq(listenersOf(listeners, topic), other)
           /\ DOMAIN res.listeners \ {topic} = DOMAIN listeners \ {topic}
           /\ \A x \in DOMAIN listeners \ {topic} :
                 res.listeners[x] = listeners[x]
           /\ res.connState = connState
           /\ res.socket = socket
           /\ res.connectPromise = connectPromise
           /\ res.reconnectAttempts = reconnectAttempts
           /\ res.attempts = attempts
           /\ res.timers = timers
           /\ res.constructed = 0
           /\ res.notes = <<>>

\* "t1" holds cb1 and another callback and a second topic has an entry:
\* unsubscribe("t1", cb1) has something to remove and something to keep
C32_Witness ==
    /\ "t1" \in DOMAIN listeners
    /\ \E i, j \in 1..Len(listeners["t1"]) :
          listeners["t1"][i] = "cb1" /\ listeners["t1"][j] # "cb1"
    /\ DOMAIN listeners \ {"t1"} # {}
    /\ Run(unsubscribe(Cur, "t1", "cb1")).listeners["t1"] # listeners["t1"]

\* ------------------------------------------------------ malformed frames
\* inbound frames whose envelope or whose payload does not parse
MalformedFrames ==
    {Frame(FALSE, topic, TRUE) : topic \in DispatchTopics}
        \cup {Frame(TRUE, topic, FALSE) : topic \in DispatchTopics}

\* C33: a frame whose envelope or payload does not parse invokes no
\* callback, throws nothing out of the handler and leaves the registry, the
\* connection states, sockets, handles, counters and timers as they were;
\* a well-formed frame handled next is dispatched as it would have been
\* without the malformed one.
C33_MalformedFrameDropped ==
    (\E k \in 1..Len(attempts["subscriber"]) : Receiving(k)) =>
        \A bad \in MalformedFrames :
            LET res == Run(onmessage(Cur, bad))
            IN /\ res.invoked = <<>>
               /\ res.raised = <<>>
               /\ res.listeners = listeners
               /\ res.connState = connState
               /\ res.socket = socket
               /\ res.connectPromise = connectPromise
               /\ res.reconnectAttempts = reconnectAttempts
               /\ res.attempts = attempts
               /\ res.timers = timers
               /\ \A topic \in DispatchTopics :
                     LET good == Frame(TRUE, topic, TRUE)
                         next == Run(onmessage(Fresh(res), good))
                         alone == Run(onmessage(Cur, good))
                     IN /\ next.invoked = alone.invoked
                        /\ next.listeners = alone.listeners

\* a receiving subscriber with callbacks registered under "t1" and under
\* the wildcard, which a frame of topic "t1" would invoke
C33_Witness ==
    /\ \E k \in 1..Len(attempts["subscriber"]) : Receiving(k)
    /\ "t1" \in DOMAIN listeners
    /\ TOPIC_ALL \in DOMAIN listeners
    /\ Run(onmessage(Cur, Frame(TRUE, "t1", TRUE))).invoked # <<>>
    /\ Run(onmessage(Cur, Frame(TRUE, "t1", FALSE))).invoked = <<>>

\* ------------------------------------------------- one call per registration
\* C34: a well-formed envelope of any topic, the wildcard name included,
\* invokes each callback at most as many times from an entry of the
\* registry as the callback is registered in that entry.
C34_EachRegistrationInvokedOnce ==
    (\E k \in 1..Len(attempts["subscriber"]) : Receiving(k)) =>
        \A topic \in {"t1", "t2", TOPIC_ALL} :
            LET res == Run(onmessage(Cur, Frame(TRUE, topic, TRUE)))
            IN \A cb \in DispatchCallbacks, via \in {topic, TOPIC_ALL} :
                  InvokedFrom(res, cb, via)
                      <= Count(listenersOf(listeners, via), cb)

\* --------------------------------------------------- disconnect resolves
\* C35: in the step in which a disconnect() call resolves, both socket
\* references and both connect handles are empty afterwards, and a role
\* whose socket reference was still held before the step is the role
\* whose close or timeout the call was awaiting: the close sequence of
\* every other role had completed before.
C35_DisconnectResolvesAfterBothClosed ==
    \A res \in Turns, d \in 1..MaxDisconnects :
        (res.shutdown[d] = "done" /\ shutdown[d] # "done") =>
            /\ \A r \in Roles :
                  /\ res.socket[r] = 0
                  /\ res.connectPromise[r] = 0
                  /\ socket[r] # 0 => shutdown[d] = r
            /\ [op |-> "disconnect", role |-> "done", call |-> d,
                result |-> "resolved", error |-> "none", attempt |-> 0]
                   \in {res.settled[i] : i \in 1..Len(res.settled)}

\* a disconnect() call has resolved after both roles had constructed a
\* socket
C35_Witness ==
    /\ \E d \in 1..MaxDisconnects : shutdown[d] = "done"
    /\ ctorThrows = {}
    /\ \A r \in Roles : Len(attempts[r]) > 0 /\ socket[r] = 0

\* ------------------------------------------------------ role independence
\* the registry after the subscribe calls among the waiters ws have made
\* their registrations, in the order in which they awaited
RECURSIVE registerWaiters(_, _)
registerWaiters(reg, ws) ==
    IF ws = <<>> THEN reg
    ELSE registerWaiters(IF Head(ws).op = "subscribe"
                         THEN register(reg, Head(ws).topics, Head(ws).callback)
                         ELSE reg,
                         Tail(ws))

\* the role that is not r
OtherRole(r) == IF r = "publisher" THEN "subscriber" ELSE "publisher"

\* C36: while no disconnect() call is in progress, a publish (subscribe)
\* call, an event of a socket of the role and the reconnect timer of the
\* role leave the state, socket reference, connect handle, retry counter,
\* sockets and timers of the other role as they were; the events and timers
\* of either role leave the registry as it was, but for the registrations
\* of the subscribe calls that were awaiting a subscriber socket that opens
\* (and for what a state-change listener does by a call of its own).
C36_RolesIndependent ==
    (\A d \in 1..MaxDisconnects : shutdown[d] \in {"idle", "done"}) =>
        \A r \in Roles :
            LET o == OtherRole(r)
            IN /\ \A res \in {CallNow(r)} \cup EventTurnsIn(Cur, r) :
                     /\ res.connState[o] = connState[o]
                     /\ res.socket[o] = socket[o]
                     /\ res.connectPromise[o] = connectPromise[o]
                     /\ res.reconnectAttempts[o] = reconnectAttempts[o]
                     /\ res.attempts[o] = attempts[o]
                     /\ res.timers[o] = timers[o]
               /\ NoneReentering => \A k \in 1..Len(attempts[r]) :
                     /\ attempts[r][k].readyState = "CONNECTING" =>
                           Run(onopen(Cur, r, k)).listeners
                               = registerWaiters(listeners, attempts[r][k].waiters)
                     /\ attempts[r][k].readyState # "CLOSED" =>
                           /\ Run(onclose(Cur, r, k)).listeners = listeners
                           /\ ~attempts[r][k].errorFired =>
                                 Run(onerror(Cur, r, k)).listeners = listeners
               /\ (NoneReentering /\ timers[r] > 0) =>
                     Run(reconnectTimer(Cur, r)).listeners = listeners

\* the subscriber has used a retry and waits for its reconnect timer while
\* a publisher socket is about to open
C36_Witness ==
    /\ \A d \in 1..MaxDisconnects : shutdown[d] \in {"idle", "done"}
    /\ reconnectAttempts["subscriber"] > 0
    /\ timers["subscriber"] > 0
    /\ \E k \in 1..Len(attempts["publisher"]) :
          attempts["publisher"][k].readyState = "CONNECTING"

\* --------------------------------------------------------- calls settle
\* C37: no publish or subscribe call is left awaiting an attempt whose
\* socket has closed.  The promise of an attempt is settled by the handlers
\* of the attempt's own socket only and a closed socket delivers no further
\* event, so a call left there never resolves or rejects although the
\* socket has emitted its events.
C37_NoCallLeftOnClosedSocket ==
    \A r \in Roles : \A k \in 1..Len(attempts[r]) :
        attempts[r][k].readyState = "CLOSED" =>
            /\ attempts[r][k].waiters = <<>>
            /\ attempts[r][k].promise # "pending"

\* ------------------------------------------------------ publish resolves
\* C38: in every step, each publish call that resolves has handed one
\* envelope with its topic and payload to the socket this.pubSocket refers
\* to while that socket was open: there are as many such envelopes as
\* resolved publish calls, and every send call of the step is one of them.
C38_ResolvedPublishHasSent ==
    \A res \in Turns :
        LET done(e) == e.op = "publish" /\ e.result = "resolved"
            handed(e) == /\ e.readyState = "OPEN"
                         /\ e.topic = "t1"
                         /\ e.payload = NoPayload
                         /\ e.text = envelopeOf("t1", NoPayload)
        IN /\ Len(SelectSeq(res.sent, handed)) = Len(SelectSeq(res.settled, done))
           /\ Len(SelectSeq(res.sent, handed)) = Len(res.sent)

====
